---- MODULE Spec2Model ----
(***************************************************************************)
(* KubeApi-Exporter: a read-only HTTP facade over the Kubernetes list      *)
(* APIs (src/index.js).  The model covers the start-up configuration       *)
(* loader, the query normaliser parseListParams, the nine list routes, the *)
(* health route and the two responders sendList / sendError.               *)
(*                                                                         *)
(* JavaScript values are modelled as records of one fixed shape so that    *)
(* `undefined`, `null`, strings, numbers and NaN stay distinct values.     *)
(***************************************************************************)
EXTENDS Integers, Sequences, FiniteSets, TLC

VARIABLES env, proc, loads, kc, req, uncaught

vars == <<env, proc, loads, kc, req, uncaught>>

(***************************************************************************)
(* Bounds of the model.                                                    *)
(***************************************************************************)
NumReqs == 2        \* requests that may be in flight together
MaxLimitLen == 2    \* longest `limit` query string, in characters
MaxItems == 2       \* longest upstream item list

(***************************************************************************)
(* JavaScript values.                                                      *)
(*   t : "undefined" | "null" | "str" | "num" | "nan" | "obj" |            *)
(*       "message-object"                                                  *)
(*   s : the string, for "str"                                             *)
(*   n : the integer part, for "num"                                       *)
(*   f : the fraction digits (no trailing zero), for "num"                 *)
(***************************************************************************)
Undefined == [t |-> "undefined", s |-> "", n |-> 0, f |-> <<>>]
Null == [t |-> "null", s |-> "", n |-> 0, f |-> <<>>]
NaN == [t |-> "nan", s |-> "", n |-> 0, f |-> <<>>]
Str(x) == [t |-> "str", s |-> x, n |-> 0, f |-> <<>>]
Num(i, fr) == [t |-> "num", s |-> "", n |-> i, f |-> fr]
\* an object, named by s; every object is truthy
Obj(x) == [t |-> "obj", s |-> x, n |-> 0, f |-> <<>>]
\* the object literal { message: m } for a string m
MessageObject(m) == [t |-> "message-object", s |-> m.s, n |-> 0, f |-> <<>>]

\* JavaScript truthiness (ToBoolean) of a value.
Truthy(v) ==
  CASE v.t = "undefined" -> FALSE
    [] v.t = "null" -> FALSE
    [] v.t = "nan" -> FALSE
    [] v.t = "str" -> v.s # ""
    [] v.t = "num" -> ~(v.n = 0 /\ v.f = <<>>)
    [] OTHER -> TRUE

\* a || b
Or(a, b) == IF Truthy(a) THEN a ELSE b

(***************************************************************************)
(* Start-up: loadKubeConfigRobust.                                         *)
(* A path is the sequence of its components; the empty sequence is the     *)
(* empty string.  An environment variable is [has, v].                     *)
(***************************************************************************)
saDir == <<"var", "run", "secrets", "kubernetes.io", "serviceaccount">>
AdminConf == <<"etc", "kubernetes", "admin.conf">>
RootKubeConfig == <<"root", ".kube", "config">>
AdministratorKubeConfig == <<"home", "administrator", ".kube", "config">>
DefaultHome == <<"root">>

\* path.join(a, b...) on component sequences
PathJoin(a, b) == a \o b

Unset == [has |-> FALSE, v |-> <<>>]
SetTo(p) == [has |-> TRUE, v |-> p]

\* process.env.X used as a condition or under ||: unset and "" are falsy
EnvTruthy(e) == e.has /\ e.v # <<>>

\* fs.existsSync(p)
existsSync(e, p) == p # <<>> /\ p \in e.files

\* lines 19-22
inCluster(e) ==
  /\ EnvTruthy(e.KUBERNETES_SERVICE_HOST)
  /\ existsSync(e, PathJoin(saDir, <<"token">>))
  /\ existsSync(e, PathJoin(saDir, <<"ca.crt">>))

\* line 29
home(e) == IF EnvTruthy(e.HOME) THEN e.HOME.v ELSE DefaultHome

\* the candidate list before filtering, lines 30-36; an unset variable is
\* the empty path, which filter(Boolean) drops like the empty string
rawCandidates(e) ==
  << IF e.KUBECONFIG.has THEN e.KUBECONFIG.v ELSE <<>>,
     AdminConf,
     PathJoin(home(e), <<".kube", "config">>),
     RootKubeConfig,
     AdministratorKubeConfig >>

\* .filter(Boolean).filter(p => fs.existsSync(p))
candidates(e) ==
  SelectSeq(rawCandidates(e), LAMBDA p : p # <<>> /\ existsSync(e, p))

\* the one load call loadKubeConfigRobust makes, lines 23-45
chosenLoad(e) ==
  IF inCluster(e) THEN [how |-> "loadFromCluster", path |-> <<>>]
  ELSE IF Len(candidates(e)) > 0
       THEN [how |-> "loadFromFile", path |-> candidates(e)[1]]
       ELSE [how |-> "loadFromDefault", path |-> <<>>]

NoConfig == [how |-> "none", path |-> <<>>]

\* Module load (lines 14-57): the loader makes its one load call.  The call
\* is a library call that reads the host's files: it returns or it throws
\* (the earlier getKubeClients wrapped loadFromCluster in try/catch for that
\* reason).  Nothing here catches a throw, so the process ends before
\* app.listen.
Startup ==
  /\ proc = "starting"
  /\ loads' = Append(loads, chosenLoad(env))
  /\ \E ok \in BOOLEAN :
       IF ok
       THEN kc' = chosenLoad(env) /\ proc' = "serving"
       ELSE kc' = kc /\ proc' = "failed"
  /\ UNCHANGED <<env, req, uncaught>>

(***************************************************************************)
(* Query strings.  A query parameter is [has, v]: v is a string, except    *)
(* for `limit`, whose v is the sequence of its characters so that Number() *)
(* can be computed on it.                                                  *)
(***************************************************************************)
Absent == [has |-> FALSE, v |-> ""]
Given(x) == [has |-> TRUE, v |-> x]
AbsentLimit == [has |-> FALSE, v |-> <<>>]
GivenLimit(cs) == [has |-> TRUE, v |-> cs]

\* req.query.name as a JavaScript value
QueryValue(qp) == IF qp.has THEN Str(qp.v) ELSE Undefined

LimitChars == {"0", "2", ".", "a"}
DigitChars == {"0", "1", "2", "3", "4", "5", "6", "7", "8", "9"}

DigitVal(c) ==
  CASE c = "0" -> 0 [] c = "1" -> 1 [] c = "2" -> 2 [] c = "3" -> 3
    [] c = "4" -> 4 [] c = "5" -> 5 [] c = "6" -> 6 [] c = "7" -> 7
    [] c = "8" -> 8 [] c = "9" -> 9

AllDigits(cs) == \A i \in 1..Len(cs) : cs[i] \in DigitChars

RECURSIVE DecimalValue(_)
DecimalValue(cs) ==
  IF cs = <<>> THEN 0
  ELSE 10 * DecimalValue(SubSeq(cs, 1, Len(cs) - 1)) + DigitVal(cs[Len(cs)])

RECURSIVE StripTrailingZeros(_)
StripTrailingZeros(cs) ==
  IF cs # <<>> /\ cs[Len(cs)] = "0"
  THEN StripTrailingZeros(SubSeq(cs, 1, Len(cs) - 1))
  ELSE cs

DotPositions(cs) == {i \in 1..Len(cs) : cs[i] = "."}

\* Number(string) on the characters of the model: decimal digits with at
\* most one ".", at least one digit; anything else is NaN.  (The empty
\* string is 0, but parseListParams never converts it.)
Number(cs) ==
  IF cs = <<>> THEN Num(0, <<>>)
  ELSE IF AllDigits(cs) THEN Num(DecimalValue(cs), <<>>)
  ELSE IF Cardinality(DotPositions(cs)) = 1
       THEN LET d == CHOOSE i \in DotPositions(cs) : TRUE
                ip == SubSeq(cs, 1, d - 1)
                fp == SubSeq(cs, d + 1, Len(cs))
            IN IF AllDigits(ip) /\ AllDigits(fp) /\ Len(ip) + Len(fp) > 0
               THEN Num(DecimalValue(ip), StripTrailingZeros(fp))
               ELSE NaN
       ELSE NaN

\* parseListParams, lines 64-77
parseListParams(q) ==
  [ namespace |-> Or(QueryValue(q.namespace), Null),
    labelSelector |-> Or(QueryValue(q.labelSelector), Undefined),
    fieldSelector |-> Or(QueryValue(q.fieldSelector), Undefined),
    limit |-> IF q.limit.has /\ q.limit.v # <<>>
              THEN Number(q.limit.v) ELSE Undefined,
    _continue |-> Or(QueryValue(q.continue), Undefined),
    resourceVersion |-> Or(QueryValue(q.resourceVersion), Undefined) ]

(***************************************************************************)
(* The list calls.  A call is the client method and its positional         *)
(* arguments, as the route passes them.                                    *)
(***************************************************************************)
\* ClusterArgs with the two selectors in each other's position
ClusterArgsSwapped(p) ==
  << Undefined, Undefined, p._continue, p.labelSelector, p.fieldSelector,
     p.limit, p.resourceVersion >>

\* the tail every route passes after (pretty, allowWatchBookmarks)
ClusterArgs(p) ==
  << Undefined, Undefined, p._continue, p.fieldSelector, p.labelSelector,
     p.limit, p.resourceVersion >>

NamespacedArgs(p) == <<p.namespace>> \o ClusterArgs(p)

Call(api, fn, args) == [api |-> api, fn |-> fn, args |-> args]

\* Branch without the namespace test
BranchIgnoringNamespace(p, api, namespacedFn, clusterFn) ==
  [api |-> api, fn |-> clusterFn,
   args |-> << Undefined, Undefined, p._continue, p.fieldSelector,
               p.labelSelector, p.limit, p.resourceVersion >>]

\* the shared if (p.namespace) { namespaced } else { all namespaces }
Branch(p, api, namespacedFn, clusterFn) ==
  IF Truthy(p.namespace)
  THEN Call(api, namespacedFn, NamespacedArgs(p))
  ELSE Call(api, clusterFn, ClusterArgs(p))

NamespacesCall(p) == Call("core", "listNamespace", ClusterArgs(p))
PodsCall(p) ==
  Branch(p, "core", "listNamespacedPod", "listPodForAllNamespaces")
ServicesCall(p) ==
  Branch(p, "core", "listNamespacedService", "listServiceForAllNamespaces")
NodesCall(p) == Call("core", "listNode", ClusterArgs(p))
DeploymentsCall(p) ==
  Branch(p, "apps", "listNamespacedDeployment",
         "listDeploymentForAllNamespaces")
DaemonsetsCall(p) ==
  Branch(p, "apps", "listNamespacedDaemonSet", "listDaemonSetForAllNamespaces")
StatefulsetsCall(p) ==
  Branch(p, "apps", "listNamespacedStatefulSet",
         "listStatefulSetForAllNamespaces")
IngressesCall(p) ==
  Branch(p, "net", "listNamespacedIngress", "listIngressForAllNamespaces")
EventsCall(p) ==
  Branch(p, "core", "listNamespacedEvent", "listEventForAllNamespaces")

(***************************************************************************)
(* Responses.  Every response has the same shape; `kind` tells which of    *)
(* the three bodies it carries.                                            *)
(***************************************************************************)
NoResponse ==
  [ kind |-> "none", http |-> 0, ok |-> FALSE,
    count |-> 0, continue |-> Undefined, resourceVersion |-> Undefined,
    items |-> <<>>,
    error |-> "", status |-> Undefined, details |-> Undefined ]

\* res.json({ ok: true }), line 103; res.json leaves the status at 200
HealthResponse == [NoResponse EXCEPT !.kind = "health", !.http = 200,
                                     !.ok = TRUE]

\* What the awaited list call resolved with.  `defined` is FALSE for a
\* resolution with undefined; the other fields tell which properties of
\* apiResp.body exist.
UndefinedApiResp ==
  [ defined |-> FALSE, hasBody |-> FALSE, hasItems |-> FALSE, items |-> <<>>,
    hasMeta |-> FALSE, continue |-> Undefined, resourceVersion |-> Undefined ]

\* What a failed list call threw: err.response (with statusCode and body)
\* and err.message.
LocalError(m) ==
  [ hasResponse |-> FALSE, statusCode |-> Undefined, body |-> Undefined,
    message |-> m ]

TypeErrorOfUndefined ==
  LocalError(Str("Cannot read properties of undefined (reading 'body')"))

Returned(r) == [thrown |-> FALSE, resp |-> r, err |-> LocalError(Undefined)]
Thrown(e) == [thrown |-> TRUE, resp |-> NoResponse, err |-> e]

\* sendList with the two metadata fields read from each other's place
sendListSwapped(apiResp) ==
  IF ~apiResp.defined THEN Thrown(TypeErrorOfUndefined)
  ELSE LET items == IF apiResp.hasBody /\ apiResp.hasItems
                    THEN apiResp.items ELSE <<>>
           meta == apiResp.hasBody /\ apiResp.hasMeta
           cont == IF meta THEN apiResp.continue ELSE Undefined
           rv == IF meta THEN apiResp.resourceVersion ELSE Undefined
       IN Returned([NoResponse EXCEPT
                      !.kind = "list", !.http = 200,
                      !.count = Len(items),
                      !.continue = Or(rv, Null),
                      !.resourceVersion = Or(cont, Null),
                      !.items = items])

\* sendList that keeps only the first item of the page
sendListTruncating(apiResp) ==
  IF ~apiResp.defined THEN Thrown(TypeErrorOfUndefined)
  ELSE LET items == IF apiResp.hasBody /\ apiResp.hasItems
                    THEN apiResp.items ELSE <<>>
           meta == apiResp.hasBody /\ apiResp.hasMeta
           cont == IF meta THEN apiResp.continue ELSE Undefined
           rv == IF meta THEN apiResp.resourceVersion ELSE Undefined
       IN Returned([NoResponse EXCEPT
                      !.kind = "list", !.http = 200,
                      !.count = Len(items),
                      !.continue = Or(cont, Null),
                      !.resourceVersion = Or(rv, Null),
                      !.items = IF items = <<>> THEN <<>>
                                ELSE <<Head(items)>>])

\* sendList, lines 80-89.  Reading apiResp.body of undefined throws.
sendList(apiResp) ==
  IF ~apiResp.defined THEN Thrown(TypeErrorOfUndefined)
  ELSE LET items == IF apiResp.hasBody /\ apiResp.hasItems
                    THEN apiResp.items ELSE <<>>
           meta == apiResp.hasBody /\ apiResp.hasMeta
           cont == IF meta THEN apiResp.continue ELSE Undefined
           rv == IF meta THEN apiResp.resourceVersion ELSE Undefined
       IN Returned([NoResponse EXCEPT
                      !.kind = "list", !.http = 200,
                      !.count = Len(items),
                      !.continue = Or(cont, Null),
                      !.resourceVersion = Or(rv, Null),
                      !.items = items])

\* sendError that answers 500 whatever the upstream status
sendErrorAlways500(err) ==
  LET status == Num(500, <<>>)
      details == Or(IF err.hasResponse THEN err.body ELSE Undefined,
                    MessageObject(Or(err.message, Str("Unknown error"))))
  IN [NoResponse EXCEPT
        !.kind = "error", !.http = status.n,
        !.error = "K8S_API_ERROR", !.status = status, !.details = details]

\* sendError that never reads err.message
sendErrorUnknown(err) ==
  LET status == Or(IF err.hasResponse THEN err.statusCode ELSE Undefined,
                   Num(500, <<>>))
      details == Or(IF err.hasResponse THEN err.body ELSE Undefined,
                    MessageObject(Str("Unknown error")))
  IN [NoResponse EXCEPT
        !.kind = "error", !.http = status.n,
        !.error = "K8S_API_ERROR", !.status = status, !.details = details]

\* sendError, lines 91-101
sendError(err) ==
  LET status == Or(IF err.hasResponse THEN err.statusCode ELSE Undefined,
                   Num(500, <<>>))
      details == Or(IF err.hasResponse THEN err.body ELSE Undefined,
                    MessageObject(Or(err.message, Str("Unknown error"))))
  IN [NoResponse EXCEPT
        !.kind = "error", !.http = status.n,
        !.error = "K8S_API_ERROR", !.status = status, !.details = details]

(***************************************************************************)
(* Requests.                                                               *)
(***************************************************************************)
Reqs == 1..NumReqs

EmptyQuery ==
  [ namespace |-> Absent, labelSelector |-> Absent, fieldSelector |-> Absent,
    limit |-> AbsentLimit, continue |-> Absent, resourceVersion |-> Absent ]

IdleRequest ==
  [ pc |-> "idle", route |-> "", query |-> EmptyQuery, calls |-> <<>>,
    responses |-> <<>>, settled |-> "", resp |-> UndefinedApiResp,
    caught |-> FALSE, e |-> LocalError(Undefined) ]

\* A request can arrive: the server listens and the request is not yet in
Arrives(r) == proc = "serving" /\ req[r].pc = "idle"

\* The synchronous part of a list route's handler: parse the query, invoke
\* the list call, suspend at the await.
Begin(r, route, q, call) ==
  /\ req' = [req EXCEPT ![r] = [@ EXCEPT !.pc = "awaiting", !.route = route,
                                         !.query = q,
                                         !.calls = Append(@, call)]]
  /\ UNCHANGED <<env, proc, loads, kc, uncaught>>

GetNamespaces(r, Q) ==
  /\ Arrives(r)
  /\ \E q \in Q :
       Begin(r, "namespaces", q, NamespacesCall(parseListParams(q)))
GetPods(r, Q) ==
  /\ Arrives(r)
  /\ \E q \in Q :
       Begin(r, "pods", q, PodsCall(parseListParams(q)))
GetServices(r, Q) ==
  /\ Arrives(r)
  /\ \E q \in Q :
       Begin(r, "services", q, ServicesCall(parseListParams(q)))
GetNodes(r, Q) ==
  /\ Arrives(r)
  /\ \E q \in Q :
       Begin(r, "nodes", q, NodesCall(parseListParams(q)))
GetDeployments(r, Q) ==
  /\ Arrives(r)
  /\ \E q \in Q :
       Begin(r, "deployments", q, DeploymentsCall(parseListParams(q)))
GetDaemonsets(r, Q) ==
  /\ Arrives(r)
  /\ \E q \in Q :
       Begin(r, "daemonsets", q, DaemonsetsCall(parseListParams(q)))
GetStatefulsets(r, Q) ==
  /\ Arrives(r)
  /\ \E q \in Q :
       Begin(r, "statefulsets", q, StatefulsetsCall(parseListParams(q)))
GetIngresses(r, Q) ==
  /\ Arrives(r)
  /\ \E q \in Q :
       Begin(r, "ingresses", q, IngressesCall(parseListParams(q)))
GetEvents(r, Q) ==
  /\ Arrives(r)
  /\ \E q \in Q :
       Begin(r, "events", q, EventsCall(parseListParams(q)))

\* a health route that probes the control plane before answering
GetHealthProbing(r) ==
  /\ Arrives(r)
  /\ req' = [req EXCEPT ![r] =
               [@ EXCEPT !.pc = "awaiting", !.route = "health",
                         !.calls = Append(@, NamespacesCall(
                                               parseListParams(EmptyQuery)))]]
  /\ UNCHANGED <<env, proc, loads, kc, uncaught>>

\* GET /api/health, line 103: answered at once, no client involved
GetHealth(r) ==
  /\ Arrives(r)
  /\ req' = [req EXCEPT ![r] = [@ EXCEPT !.pc = "done", !.route = "health",
                                         !.responses =
                                           Append(@, HealthResponse)]]
  /\ UNCHANGED <<env, proc, loads, kc, uncaught>>

\* Resolve without the try/catch around sendList: what sendList throws is
\* an unhandled rejection and the request gets no response
ResolveUncaught(r, apiResp) ==
  /\ req[r].pc = "awaiting"
  /\ LET o == sendList(apiResp)
     IN /\ req' = [req EXCEPT ![r] =
                     [@ EXCEPT !.pc = "done", !.settled = "resolved",
                               !.resp = apiResp, !.caught = FALSE,
                               !.responses = IF o.thrown THEN @
                                             ELSE Append(@, o.resp)]]
        /\ uncaught' = IF o.thrown THEN uncaught + 1 ELSE uncaught
        /\ proc' = IF o.thrown THEN "crashed" ELSE proc
  /\ UNCHANGED <<env, loads, kc>>

\* The list call resolves with apiResp: sendList(res, resp) inside the try;
\* what sendList throws goes to the handler's catch, i.e. sendError.
Resolve(r, apiResp) ==
  /\ req[r].pc = "awaiting"
  /\ LET o == sendList(apiResp)
     IN req' = [req EXCEPT ![r] =
                  [@ EXCEPT !.pc = "done", !.settled = "resolved",
                            !.resp = apiResp, !.caught = o.thrown,
                            !.e = IF o.thrown THEN o.err ELSE @,
                            !.responses =
                              Append(@, IF o.thrown THEN sendError(o.err)
                                        ELSE o.resp)]]
  /\ UNCHANGED <<env, proc, loads, kc, uncaught>>

\* Reject that issues the call once more before giving up
RejectRetrying(r, err) ==
  /\ req[r].pc = "awaiting"
  /\ IF Len(req[r].calls) < 2
     THEN req' = [req EXCEPT ![r] =
                    [@ EXCEPT !.calls = Append(@, @[1])]]
     ELSE req' = [req EXCEPT ![r] =
                    [@ EXCEPT !.pc = "done", !.settled = "rejected",
                              !.caught = TRUE, !.e = err,
                              !.responses = Append(@, sendError(err))]]
  /\ UNCHANGED <<env, proc, loads, kc, uncaught>>

\* The list call fails with err: catch (e) { sendError(res, e); }
Reject(r, err) ==
  /\ req[r].pc = "awaiting"
  /\ req' = [req EXCEPT ![r] =
               [@ EXCEPT !.pc = "done", !.settled = "rejected",
                         !.caught = TRUE, !.e = err,
                         !.responses = Append(@, sendError(err))]]
  /\ UNCHANGED <<env, proc, loads, kc, uncaught>>

(***************************************************************************)
(* Inputs.                                                                 *)
(***************************************************************************)
QueryStrings(x) == {Absent, Given(""), Given(x)}

LimitStrings == UNION {[1..n -> LimitChars] : n \in 1..MaxLimitLen}
LimitValues ==
  {AbsentLimit, GivenLimit(<<>>)} \cup {GivenLimit(cs) : cs \in LimitStrings}

AllQueries ==
  [ namespace : QueryStrings("kube-system"),
    labelSelector : QueryStrings("app=web"),
    fieldSelector : QueryStrings("status.phase=Running"),
    limit : LimitValues,
    continue : QueryStrings("page2"),
    resourceVersion : QueryStrings("1042") ]

\* GET /api/nodes  and  GET /api/pods?namespace=kube-system&limit=2
FewQueries ==
  { EmptyQuery,
    [EmptyQuery EXCEPT !.namespace = Given("kube-system"),
                       !.limit = GivenLimit(<<"2">>)] }

ItemNames == {"a", "b"}
ItemLists == UNION {[1..n -> ItemNames] : n \in 0..MaxItems}

AllApiResps ==
  { a \in [ defined : BOOLEAN, hasBody : BOOLEAN, hasItems : BOOLEAN,
            items : ItemLists, hasMeta : BOOLEAN,
            continue : {Undefined, Str(""), Str("next-page")},
            resourceVersion : {Undefined, Str(""), Str("77")} ] :
      /\ ~a.defined => ~a.hasBody
      /\ ~a.hasBody => ~a.hasItems /\ ~a.hasMeta
      /\ ~a.hasItems => a.items = <<>>
      /\ ~a.hasMeta => a.continue = Undefined /\ a.resourceVersion = Undefined }

FewApiResps ==
  { UndefinedApiResp,
    [ defined |-> TRUE, hasBody |-> TRUE, hasItems |-> TRUE, items |-> <<"a">>,
      hasMeta |-> TRUE, continue |-> Str("next-page"),
      resourceVersion |-> Str("77") ] }

AllErrors ==
  { x \in [ hasResponse : BOOLEAN,
            statusCode : {Undefined, Num(0, <<>>), Num(404, <<>>),
                          Num(503, <<>>)},
            body : {Undefined, Str(""), Obj("Status")},
            message : {Undefined, Str(""), Str("connect ECONNREFUSED")} ] :
      ~x.hasResponse => x.statusCode = Undefined /\ x.body = Undefined }

FewErrors ==
  { LocalError(Str("connect ECONNREFUSED")),
    [ hasResponse |-> TRUE, statusCode |-> Num(404, <<>>),
      body |-> Obj("Status"), message |-> Str("HTTP request failed") ] }

TokenFile == PathJoin(saDir, <<"token">>)
CaFile == PathJoin(saDir, <<"ca.crt">>)
CustomConf == <<"opt", "kube", "config">>
UserHome == <<"home", "u">>

KnownFiles ==
  { TokenFile, CaFile, CustomConf, AdminConf, RootKubeConfig,
    AdministratorKubeConfig, PathJoin(UserHome, <<".kube", "config">>) }

AllEnvs ==
  [ KUBERNETES_SERVICE_HOST : {Unset, SetTo(<<>>), SetTo(<<"10.0.0.1">>)},
    KUBECONFIG : {Unset, SetTo(<<>>), SetTo(CustomConf)},
    HOME : {Unset, SetTo(<<>>), SetTo(DefaultHome), SetTo(UserHome)},
    files : SUBSET KnownFiles ]

\* the environment of the process file: KUBECONFIG=/etc/kubernetes/admin.conf
FewEnvs ==
  { [ KUBERNETES_SERVICE_HOST |-> Unset, KUBECONFIG |-> SetTo(AdminConf),
      HOME |-> SetTo(DefaultHome), files |-> {AdminConf} ] }

(***************************************************************************)
(* Specifications.                                                         *)
(***************************************************************************)
InitWith(Envs) ==
  /\ env \in Envs
  /\ proc = "starting"
  /\ loads = <<>>
  /\ kc = NoConfig
  /\ req = [r \in Reqs |-> IdleRequest]
  /\ uncaught = 0

ListRoutes(r, Q) ==
  \/ GetNamespaces(r, Q)
  \/ GetPods(r, Q)
  \/ GetServices(r, Q)
  \/ GetNodes(r, Q)
  \/ GetDeployments(r, Q)
  \/ GetDaemonsets(r, Q)
  \/ GetStatefulsets(r, Q)
  \/ GetIngresses(r, Q)
  \/ GetEvents(r, Q)

\* the server under concurrent requests
Init == InitWith(FewEnvs)
Next ==
  \/ Startup
  \/ \E r \in Reqs :
       \/ GetHealth(r)
       \/ ListRoutes(r, FewQueries)
       \/ \E a \in FewApiResps : Resolve(r, a)
       \/ \E x \in FewErrors : Reject(r, x)
Spec == Init /\ [][Next]_vars

\* one request, every query
NextQuery ==
  \/ Startup
  \/ ListRoutes(1, AllQueries)
  \/ \E a \in FewApiResps : Resolve(1, a)
  \/ \E x \in FewErrors : Reject(1, x)
SpecQuery == Init /\ [][NextQuery]_vars

\* one request, every outcome of the list call
NextShape ==
  \/ Startup
  \/ ListRoutes(1, FewQueries)
  \/ \E a \in AllApiResps : Resolve(1, a)
  \/ \E x \in AllErrors : Reject(1, x)
SpecShape == Init /\ [][NextShape]_vars

\* start-up in every environment
InitLoader == InitWith(AllEnvs)
NextLoader == Startup
SpecLoader == InitLoader /\ [][NextLoader]_vars

(***************************************************************************)
(* Properties.                                                             *)
(***************************************************************************)
ListRouteNames ==
  { "namespaces", "pods", "services", "nodes", "deployments", "daemonsets",
    "statefulsets", "ingresses", "events" }

ClusterVariant ==
  [ namespaces |-> "listNamespace",
    pods |-> "listPodForAllNamespaces",
    services |-> "listServiceForAllNamespaces",
    nodes |-> "listNode",
    deployments |-> "listDeploymentForAllNamespaces",
    daemonsets |-> "listDaemonSetForAllNamespaces",
    statefulsets |-> "listStatefulSetForAllNamespaces",
    ingresses |-> "listIngressForAllNamespaces",
    events |-> "listEventForAllNamespaces" ]

NamespacedVariant ==
  [ pods |-> "listNamespacedPod",
    services |-> "listNamespacedService",
    deployments |-> "listNamespacedDeployment",
    daemonsets |-> "listNamespacedDaemonSet",
    statefulsets |-> "listNamespacedStatefulSet",
    ingresses |-> "listNamespacedIngress",
    events |-> "listNamespacedEvent" ]

NamespacedFns == {NamespacedVariant[k] : k \in DOMAIN NamespacedVariant}

\* the request has entered a list route
Started(r) == req[r].pc # "idle" /\ req[r].route \in ListRouteNames
\* the request ended in the handler's catch
Failed(r) == Started(r) /\ req[r].pc = "done" /\ req[r].caught
\* the request ended with sendList's envelope
Succeeded(r) == Started(r) /\ req[r].pc = "done" /\ ~req[r].caught

NamespaceGiven(q) == q.namespace.has /\ q.namespace.v # ""

\* C1 (as claimed): on every list route, a request without a namespace (or
\* with an empty one) invokes the cluster-wide variant of its kind, and a
\* request with a non-empty namespace invokes a namespaced variant with that
\* value as the namespace argument.
C1_Original ==
  \A r \in Reqs :
    Started(r) =>
      LET q == req[r].query
          c == req[r].calls[1]
      IN IF NamespaceGiven(q)
         THEN c.fn \in NamespacedFns /\ c.args[1] = Str(q.namespace.v)
         ELSE c.fn = ClusterVariant[req[r].route]

\* C1 (amended): on the seven routes that have a namespaced variant (pods,
\* services, deployments, daemonsets, statefulsets, ingresses, events) the
\* cluster-wide variant is invoked when `namespace` is absent or empty and the
\* namespaced variant of that kind, with exactly that value as its namespace
\* argument, when it is non-empty; /api/namespaces and /api/nodes invoke
\* listNamespace / listNode, without a namespace argument, whatever
\* `namespace` is.
C1_Amended ==
  \A r \in Reqs :
    Started(r) =>
      LET q == req[r].query
          c == req[r].calls[1]
          route == req[r].route
      IN IF route \in DOMAIN NamespacedVariant /\ NamespaceGiven(q)
         THEN /\ c.fn = NamespacedVariant[route]
              /\ Len(c.args) = 8
              /\ c.args[1] = Str(q.namespace.v)
         ELSE /\ c.fn = ClusterVariant[route]
              /\ Len(c.args) = 7

C1_Witness ==
  \E r \in Reqs :
    /\ Started(r)
    /\ req[r].route = "pods"
    /\ req[r].query.namespace = Given("kube-system")
    /\ req[r].calls[1].fn = "listNamespacedPod"
    /\ req[r].calls[1].args[1] = Str("kube-system")

(***************************************************************************)
(* Query parameters in the call (C10).  Positions are those of the list    *)
(* methods after (pretty, allowWatchBookmarks): _continue, fieldSelector,  *)
(* labelSelector, limit, resourceVersion; the namespaced methods take the  *)
(* namespace first.                                                        *)
(***************************************************************************)
ArgAt(c, k) == c.args[IF c.fn \in NamespacedFns THEN k + 1 ELSE k]

\* the integer a string of decimal digits denotes, read left to right
RECURSIVE ReadInt(_, _)
ReadInt(cs, acc) ==
  IF cs = <<>> THEN acc ELSE ReadInt(Tail(cs), 10 * acc + DigitVal(Head(cs)))

PassedWhenPresent(qp, a) == IF qp.has THEN a = Str(qp.v) ELSE a = Undefined
PassedWhenNonEmpty(qp, a) ==
  IF qp.has /\ qp.v # "" THEN a = Str(qp.v) ELSE a = Undefined

\* C10 (as claimed): on every list route each of continue, fieldSelector,
\* labelSelector, limit and resourceVersion reaches the call in its own
\* position: unset when absent from the query, the same string when present,
\* and for a present `limit` an integer.
C10_Original ==
  \A r \in Reqs :
    Started(r) =>
      LET q == req[r].query
          c == req[r].calls[1]
      IN /\ PassedWhenPresent(q.continue, ArgAt(c, 3))
         /\ PassedWhenPresent(q.fieldSelector, ArgAt(c, 4))
         /\ PassedWhenPresent(q.labelSelector, ArgAt(c, 5))
         /\ PassedWhenPresent(q.resourceVersion, ArgAt(c, 7))
         /\ IF q.limit.has
            THEN ArgAt(c, 6).t = "num" /\ ArgAt(c, 6).f = <<>>
            ELSE ArgAt(c, 6) = Undefined

\* C10 (amended): each parameter reaches the call in its own position; a
\* parameter that is absent or empty is passed as unset; a non-empty selector,
\* continuation token or resource version is passed as the same string; a
\* non-empty `limit` is passed as Number(limit), unvalidated: the integer it
\* denotes when it is a string of decimal digits, NaN when it is not a
\* numeric literal, a non-integer when it is a decimal fraction.
C10_Amended ==
  \A r \in Reqs :
    Started(r) =>
      LET q == req[r].query
          c == req[r].calls[1]
          lim == ArgAt(c, 6)
      IN /\ ArgAt(c, 1) = Undefined
         /\ ArgAt(c, 2) = Undefined
         /\ PassedWhenNonEmpty(q.continue, ArgAt(c, 3))
         /\ PassedWhenNonEmpty(q.fieldSelector, ArgAt(c, 4))
         /\ PassedWhenNonEmpty(q.labelSelector, ArgAt(c, 5))
         /\ PassedWhenNonEmpty(q.resourceVersion, ArgAt(c, 7))
         /\ IF q.limit.has /\ q.limit.v # <<>>
            THEN IF AllDigits(q.limit.v)
                 THEN lim = Num(ReadInt(q.limit.v, 0), <<>>)
                 ELSE lim = NaN \/ (lim.t = "num" /\ "." \in
                                      {q.limit.v[i] : i \in DOMAIN q.limit.v})
            ELSE lim = Undefined

C10_Witness ==
  \E r \in Reqs :
    /\ Started(r)
    /\ req[r].route = "daemonsets"
    /\ req[r].query.labelSelector = Given("app=web")
    /\ req[r].query.fieldSelector = Absent
    /\ req[r].query.limit = GivenLimit(<<"2", "0">>)
    /\ req[r].calls[1].fn = "listNamespacedDaemonSet"
    /\ req[r].calls[1].args[6] = Str("app=web")
    /\ req[r].calls[1].args[5] = Undefined
    /\ req[r].calls[1].args[7] = Num(20, <<>>)

(***************************************************************************)
(* The error envelope (C2, C3).                                            *)
(***************************************************************************)
\* C2 (as claimed): when the caught error carries a response with a status
\* and a body, the response has that HTTP status, `status` equal to it, error
\* "K8S_API_ERROR" and `details` equal to the body, whatever the two are.
C2_Original ==
  \A r \in Reqs :
    ( /\ Failed(r)
      /\ req[r].e.hasResponse
      /\ req[r].e.statusCode # Undefined
      /\ req[r].e.body # Undefined )
    => LET x == req[r].e
           out == req[r].responses[1]
       IN /\ out.kind = "error"
          /\ out.http = x.statusCode.n
          /\ out.status = x.statusCode
          /\ out.error = "K8S_API_ERROR"
          /\ out.details = x.body

\* C2 (amended): when the caught error carries a response with a status and a
\* body, error is "K8S_API_ERROR"; the HTTP status and `status` equal the
\* embedded status when it is not 0, and are 500 when it is 0; `details`
\* equals the embedded body exactly when the body is not the empty string,
\* and is the {message} object when it is.
C2_Amended ==
  \A r \in Reqs :
    ( /\ Failed(r)
      /\ req[r].e.hasResponse
      /\ req[r].e.statusCode # Undefined
      /\ req[r].e.body # Undefined )
    => LET x == req[r].e
           out == req[r].responses[1]
       IN /\ out.kind = "error"
          /\ out.error = "K8S_API_ERROR"
          /\ IF x.statusCode.n # 0
             THEN out.http = x.statusCode.n /\ out.status = x.statusCode
             ELSE out.http = 500 /\ out.status = Num(500, <<>>)
          /\ IF x.body # Str("")
             THEN out.details = x.body
             ELSE out.details.t = "message-object"

C2_Witness ==
  \E r \in Reqs :
    /\ Failed(r)
    /\ req[r].e.hasResponse
    /\ req[r].e.statusCode = Num(404, <<>>)
    /\ req[r].e.body = Obj("Status")
    /\ req[r].responses[1].http = 404
    /\ req[r].responses[1].details = Obj("Status")

\* C3: when the caught error carries no response, the response is HTTP 500
\* with `details` = {message: m}, m being the error's message; m is
\* "Unknown error" only when the error has no message (none, or the empty
\* message of an Error built without one).
C3_NoResponse ==
  \A r \in Reqs :
    (Failed(r) /\ ~req[r].e.hasResponse)
    => LET x == req[r].e
           out == req[r].responses[1]
       IN /\ out.kind = "error"
          /\ out.http = 500
          /\ out.status = Num(500, <<>>)
          /\ out.error = "K8S_API_ERROR"
          /\ out.details.t = "message-object"
          /\ IF x.message.t = "str" /\ x.message.s # ""
             THEN out.details.s = x.message.s
             ELSE out.details.s = "Unknown error"

C3_Witness ==
  \E r \in Reqs :
    /\ Failed(r)
    /\ req[r].settled = "rejected"
    /\ ~req[r].e.hasResponse
    /\ req[r].e.message = Str("connect ECONNREFUSED")
    /\ req[r].responses[1].http = 500
    /\ req[r].responses[1].details.s = "connect ECONNREFUSED"

(***************************************************************************)
(* The success envelope (C4, C5).                                          *)
(***************************************************************************)
\* body.metadata?.<field> of what the list call resolved with
Upstream(a, field) ==
  IF a.hasBody /\ a.hasMeta THEN a[field] ELSE Undefined

\* C4 (as claimed): in a success envelope `continue` and `resourceVersion`
\* are null when the upstream metadata lacks the field and the upstream value
\* itself whenever the field is there.
C4_Original ==
  \A r \in Reqs :
    Succeeded(r) =>
      \A field \in {"continue", "resourceVersion"} :
        LET up == Upstream(req[r].resp, field)
        IN req[r].responses[1][field] = IF up = Undefined THEN Null ELSE up

\* C4 (amended): in a success envelope `continue` and `resourceVersion` are
\* null when the upstream metadata lacks the field or holds the empty string,
\* and the upstream value itself when the field holds a non-empty string.
C4_Amended ==
  \A r \in Reqs :
    Succeeded(r) =>
      \A field \in {"continue", "resourceVersion"} :
        LET up == Upstream(req[r].resp, field)
        IN req[r].responses[1][field] =
             IF up = Undefined \/ up = Str("") THEN Null ELSE up

C4_Witness ==
  \E r \in Reqs :
    /\ Succeeded(r)
    /\ req[r].resp.continue = Str("next-page")
    /\ req[r].resp.resourceVersion = Undefined
    /\ req[r].responses[1].continue = Str("next-page")
    /\ req[r].responses[1].resourceVersion = Null

\* C5: in a success envelope `count` is the length of `items`, and `items`
\* is the upstream item list as it came; with no upstream items (or no body)
\* `count` is 0 and `items` is empty.
C5_CountAndItems ==
  \A r \in Reqs :
    Succeeded(r) =>
      LET a == req[r].resp
          out == req[r].responses[1]
      IN /\ out.kind = "list"
         /\ out.http = 200
         /\ out.count = Len(out.items)
         /\ IF a.hasBody /\ a.hasItems
            THEN out.items = a.items
            ELSE out.items = <<>> /\ out.count = 0

C5_Witness ==
  \E r \in Reqs :
    /\ Succeeded(r)
    /\ req[r].resp.hasItems
    /\ req[r].resp.items = <<"a", "b">>
    /\ req[r].responses[1].count = 2
    /\ req[r].responses[1].items = <<"a", "b">>

(***************************************************************************)
(* The server under concurrent requests (C6, C7, C8).                      *)
(***************************************************************************)
\* C6: a request to /api/health is answered at once with status 200 and
\* {ok: true}; it has issued no control-plane call, whatever the other
\* requests are doing or have got from the control plane.
C6_Health ==
  \A r \in Reqs :
    req[r].route = "health" =>
      /\ req[r].pc = "done"
      /\ req[r].calls = <<>>
      /\ Len(req[r].responses) = 1
      /\ req[r].responses[1].kind = "health"
      /\ req[r].responses[1].http = 200
      /\ req[r].responses[1].ok = TRUE

C6_Witness ==
  \E r, o \in Reqs :
    /\ req[r].route = "health"
    /\ req[r].responses[1].http = 200
    /\ req[r].responses[1].ok = TRUE
    /\ Failed(o)
    /\ req[o].settled = "rejected"
    /\ ~req[o].e.hasResponse

\* C7: a list-route request has issued exactly one list call, from the
\* moment its handler ran until after it is answered: a failure does not
\* re-issue it and a continuation token in the result does not issue another.
C7_OneCall ==
  \A r \in Reqs : Started(r) => Len(req[r].calls) = 1

C7_Witness ==
  \E r, o \in Reqs :
    /\ Failed(r)
    /\ req[r].settled = "rejected"
    /\ Len(req[r].calls) = 1
    /\ Succeeded(o)
    /\ req[o].responses[1].continue = Str("next-page")
    /\ Len(req[o].calls) = 1

\* the list call failed, or resolved with something sendList cannot shape
Failure(r) ==
  \/ req[r].settled = "rejected"
  \/ req[r].settled = "resolved" /\ ~req[r].resp.defined

\* C8: a failure in a list route's handler is caught by it: the request gets
\* exactly one response, the K8S_API_ERROR envelope; nothing is left uncaught
\* and the server keeps serving.
C8_Caught ==
  /\ uncaught = 0
  /\ \A r \in Reqs :
       Started(r) =>
         /\ proc = "serving"
         /\ req[r].pc = "awaiting" => req[r].responses = <<>>
         /\ req[r].pc = "done" => Len(req[r].responses) = 1
         /\ (req[r].pc = "done" /\ Failure(r)) =>
              /\ req[r].responses[1].kind = "error"
              /\ req[r].responses[1].error = "K8S_API_ERROR"

C8_Witness ==
  \E r, o \in Reqs :
    /\ Started(r)
    /\ req[r].pc = "done"
    /\ req[r].settled = "resolved"
    /\ ~req[r].resp.defined
    /\ Len(req[r].responses) = 1
    /\ req[r].responses[1].error = "K8S_API_ERROR"
    /\ Succeeded(o)

(***************************************************************************)
(* Start-up (C9).                                                          *)
(***************************************************************************)
IsSet(x) == x.has /\ x.v # <<>>

\* the file candidates in their order; an unset or empty HOME stands for
\* /root, an unset or empty KUBECONFIG names no file
FileOrder(e) ==
  << IF IsSet(e.KUBECONFIG) THEN e.KUBECONFIG.v ELSE <<>>,
     <<"etc", "kubernetes", "admin.conf">>,
     (IF IsSet(e.HOME) THEN e.HOME.v ELSE <<"root">>) \o <<".kube", "config">>,
     <<"root", ".kube", "config">>,
     <<"home", "administrator", ".kube", "config">> >>

ExistingAt(e) == {i \in 1..5 : FileOrder(e)[i] \in e.files}

FirstExisting(e) ==
  FileOrder(e)[CHOOSE i \in ExistingAt(e) : \A j \in ExistingAt(e) : i <= j]

InClusterApplies(e) ==
  /\ IsSet(e.KUBERNETES_SERVICE_HOST)
  /\ (saDir \o <<"token">>) \in e.files
  /\ (saDir \o <<"ca.crt">>) \in e.files

\* the precedence: exactly one load call, the highest-priority applicable one
C9_Precedence ==
  proc # "starting" =>
    /\ Len(loads) = 1
    /\ loads[1].how = "loadFromCluster" <=> InClusterApplies(env)
    /\ loads[1].how = "loadFromFile" <=>
         (~InClusterApplies(env) /\ ExistingAt(env) # {})
    /\ loads[1].how = "loadFromFile" => loads[1].path = FirstExisting(env)
    /\ loads[1].how = "loadFromDefault" <=>
         (~InClusterApplies(env) /\ ExistingAt(env) = {})

\* C9: start-up applies exactly one load strategy, chosen by the precedence,
\* and the loader always returns some configuration.
C9_Claim ==
  /\ C9_Precedence
  /\ proc # "starting" => (kc # NoConfig /\ proc = "serving")

====
